---- MODULE Spec2Model ----
(***************************************************************************)
(* Model of the reversible tokenization engine of DataMaskingTool          *)
(* (src/data_masking_tool.py): the DataMasker mapping store, its JSON      *)
(* persistence, mask_dataframe / unmask_dataframe, and the mapping import  *)
(* of the unmask workflow in main().                                       *)
(*                                                                         *)
(* A column's dict (original -> token, token -> original) is modelled as a *)
(* sequence of <<key, value>> pairs with unique keys, in insertion order:  *)
(* dicts keep insertion order and the reverse index built by a             *)
(* comprehension depends on it.  The outer dict (column -> dict) is a      *)
(* function on the column names it holds: columns are handled one by one   *)
(* and no operation depends on the order of the columns.                   *)
(***************************************************************************)
EXTENDS Integers, Sequences, FiniteSets, TLC

(***************************************************************************)
(* Bounds of the model.                                                    *)
(***************************************************************************)
\* rows of every dataset
NumRows == 2

(***************************************************************************)
(* Python dict helpers.                                                    *)
(***************************************************************************)
EmptyDict == << >>

DictKeys(d) == { d[i][1] : i \in DOMAIN d }

DictHas(d, k) == \E i \in DOMAIN d : d[i][1] = k

DictGet(d, k) == d[CHOOSE i \in DOMAIN d : d[i][1] = k][2]

\* d.get(k, default)
DictGetOr(d, k, default) == IF DictHas(d, k) THEN DictGet(d, k) ELSE default

\* d[k] = v : an existing key keeps its position, a new key is appended
DictSet(d, k, v) ==
    IF DictHas(d, k)
    THEN [i \in DOMAIN d |-> IF d[i][1] = k THEN <<k, v>> ELSE d[i]]
    ELSE Append(d, <<k, v>>)

\* Python's == on dicts of strings: same keys, same values, order ignored
DictEq(d1, d2) ==
    /\ DictKeys(d1) = DictKeys(d2)
    /\ \A k \in DictKeys(d1) : DictGet(d1, k) = DictGet(d2, k)

\* the outer dict {} and self.mapping[col] = d
EmptyMapping == << >>

MappingSet(m, col, d) ==
    [c \in DOMAIN m \cup { col } |-> IF c = col THEN d ELSE m[c]]

\* Python's == on dicts of dicts
NestedDictEq(m1, m2) ==
    /\ DOMAIN m1 = DOMAIN m2
    /\ \A c \in DOMAIN m1 : DictEq(m1[c], m2[c])

(***************************************************************************)
(* Cells, columns and datasets.                                            *)
(***************************************************************************)
Null == [t |-> "null"]
StrCell(s) == [t |-> "str", s |-> s]
IntCell(n) == [t |-> "int", n |-> n]

\* pd.notna(x)
NotNa(x) == x.t # "null"

\* str(x): a string is itself, an integer is its decimal text, NaN is "nan"
PyStr(x) ==
    CASE x.t = "str" -> x.s
      [] x.t = "int" -> ToString(x.n)
      [] OTHER       -> "nan"

\* the cells of column emp_id, an object column; "25302" and "82945" have
\* the same first eight MD5 hex digits
IdCells == { Null, StrCell("25302"), IntCell(82945) }

\* column age: an integer in the first row, missing in the others
AgeSeries == [r \in 1..NumRows |-> IF r = 1 THEN IntCell(41) ELSE Null]

\* the columns of the datasets, and a column name no dataset has
DfColumns == { "emp_id", "age" }
GhostColumn == "email"

\* the column names the callers select from
ColNames == { "emp_id", GhostColumn }

Rows == 1..NumRows

Datasets ==
    { [c \in DfColumns |-> IF c = "emp_id" THEN ids ELSE AgeSeries] :
        ids \in [Rows -> IdCells] }

\* duplicate-free column lists (the multiselect of main() returns distinct names)
ColumnLists ==
    { cl \in UNION { [1..n -> ColNames] : n \in 0..Cardinality(ColNames) } :
        \A i, j \in DOMAIN cl : i # j => cl[i] # cl[j] }

Prefixes == { "MASKED", "TOK" }

(***************************************************************************)
(* Value tokenizer.                                                        *)
(***************************************************************************)
\* hashlib.md5(s.encode()).hexdigest()[:8].upper(), tabulated for the
\* strings the model can tokenize
MD5Hex8(s) ==
    CASE s = "25302" -> "7B763DCB"
      [] s = "82945" -> "7B763DCB"
      [] s = "nan"   -> "A3D2DE76"

GenerateMaskedValue(original, prefix) == prefix \o "_" \o MD5Hex8(original)

(***************************************************************************)
(* The persisted mapping document (JSON).                                  *)
(***************************************************************************)
\* os.path.exists(mapping_file) is false
NoFile == [kind |-> "absent"]

JsonString(s) == [kind |-> "string", text |-> s]

JsonObject(members) == [kind |-> "object", members |-> members]

\* a str that stands where a column's dict is expected; it is indexed by 0
\* and a dict by 1..len
PyStrValue(s) == [k \in {0} |-> s]

\* isinstance(v, dict), for the value of a column
IsDict(v) == 0 \notin DOMAIN v

\* json.dump of a column: a dict of strings gives one member per item, in
\* dict order, and a str gives a string
DumpColumn(d) ==
    IF IsDict(d)
    THEN JsonObject([j \in DOMAIN d |->
                        [name |-> d[j][1], value |-> JsonString(d[j][2])]])
    ELSE JsonString(d[0])

\* json.dump(self.mapping, f): one member per column
JsonDump(m) == JsonObject([c \in DOMAIN m |-> DumpColumn(m[c])])

\* json.load of an object of strings: members are assigned in document order
RECURSIVE LoadColumn(_, _)
LoadColumn(members, acc) ==
    IF members = << >> THEN acc
    ELSE LoadColumn(Tail(members),
                    DictSet(acc, Head(members).name, Head(members).value.text))

\* json.load(f) for a document whose top level is an object: a member that
\* is an object becomes a dict, a member that is a string becomes a str
JsonLoad(doc) ==
    [c \in DOMAIN doc.members |->
        IF doc.members[c].kind = "object"
        THEN LoadColumn(doc.members[c].members, EmptyDict)
        ELSE PyStrValue(doc.members[c].text)]

(***************************************************************************)
(* The reverse index.                                                      *)
(***************************************************************************)
\* a comprehension that keeps the first original of a token
RECURSIVE InvertItemsKeepFirst(_, _)
InvertItemsKeepFirst(items, acc) ==
    IF items = << >> THEN acc
    ELSE InvertItemsKeepFirst(Tail(items),
             IF DictHas(acc, Head(items)[2]) THEN acc
             ELSE DictSet(acc, Head(items)[2], Head(items)[1]))

\* {v: k for k, v in mappings.items()} : a later item overwrites an earlier
\* one that has the same token
RECURSIVE InvertItems(_, _)
InvertItems(items, acc) ==
    IF items = << >> THEN acc
    ELSE InvertItems(Tail(items), DictSet(acc, Head(items)[2], Head(items)[1]))

InvertColumn(d) == InvertItems(d, EmptyDict)

\* {col: {v: k ...} for col, mappings in mapping.items()}
BuildReverse(m) == [c \in DOMAIN m |-> InvertColumn(m[c])]

\* mappings.items() exists for every column, so that the comprehension does
\* not raise AttributeError
HasItems(m) == \A c \in DOMAIN m : IsDict(m[c])

\* DataMasker.__init__ followed by _load_mapping
LoadMapping(f) ==
    IF f = NoFile
    THEN [mapping |-> EmptyMapping, reverse_mapping |-> EmptyMapping]
    ELSE [mapping |-> JsonLoad(f), reverse_mapping |-> BuildReverse(JsonLoad(f))]

\* DataMasker._save_mapping
SaveMapping(m) == JsonDump(m)

(***************************************************************************)
(* mask_dataframe and unmask_dataframe.                                    *)
(***************************************************************************)
\* a series whose missing cells are not dropped
KeepNa(series) == series

\* series.dropna()
DropNa(series) == SelectSeq(series, NotNa)

\* series.unique(): the distinct cells, in order of first occurrence
RECURSIVE UniqueFrom(_, _)
UniqueFrom(series, acc) ==
    IF series = << >> THEN acc
    ELSE UniqueFrom(Tail(series),
                    IF \E i \in DOMAIN acc : acc[i] = Head(series)
                    THEN acc ELSE Append(acc, Head(series)))

Unique(series) == UniqueFrom(series, << >>)

\* series.apply(lambda x: d.get(str(x), x) if pd.notna(x) else x)
ApplyLookup(d, series) ==
    [i \in DOMAIN series |->
        IF NotNa(series[i])
        THEN IF DictHas(d, PyStr(series[i]))
             THEN StrCell(DictGet(d, PyStr(series[i])))
             ELSE series[i]
        ELSE series[i]]

\* df_masked = df: the working frame is the caller's frame
DfAlias(df) == [shared |-> TRUE, data |-> df]

\* df.copy(): a new frame that shares nothing with the caller's
DfCopy(df) == [shared |-> FALSE, data |-> df]

\* the loop over unique_values without the test "not in self.mapping[col]"
RECURSIVE InsertValuesAlways(_, _, _, _)
InsertValuesAlways(mcol, rcol, vals, prefix) ==
    IF vals = << >> THEN [m |-> mcol, r |-> rcol]
    ELSE LET original_str == PyStr(Head(vals))
             masked_value == GenerateMaskedValue(original_str, prefix)
         IN  InsertValuesAlways(DictSet(mcol, original_str, masked_value),
                                DictSet(rcol, masked_value, original_str),
                                Tail(vals), prefix)

\* the loop over unique_values: get-or-create of one column's entries
RECURSIVE InsertValues(_, _, _, _)
InsertValues(mcol, rcol, vals, prefix) ==
    IF vals = << >> THEN [m |-> mcol, r |-> rcol]
    ELSE LET original_str == PyStr(Head(vals))
             masked_value == GenerateMaskedValue(original_str, prefix)
         IN  IF DictHas(mcol, original_str)
             THEN InsertValues(mcol, rcol, Tail(vals), prefix)
             ELSE InsertValues(DictSet(mcol, original_str, masked_value),
                               DictSet(rcol, masked_value, original_str),
                               Tail(vals), prefix)

\* the values of a column the loop looks at
UniqueValues(series) == Unique(DropNa(series))

\* the column's dict is assigned {} whether or not the column has one
ResetColumn(m, col, fresh) == MappingSet(m, col, EmptyDict)

\* "if col not in self.mapping:" then the column's dict is assigned {}
EnsureColumn(m, col, fresh) == IF fresh THEN MappingSet(m, col, EmptyDict) ELSE m

\* the loop "for col in columns_to_mask"; st.ok turns FALSE where the code
\* raises KeyError, and the store keeps what was assigned before the raise
RECURSIVE MaskColumns(_, _, _)
MaskColumns(st, cols, prefix) ==
    IF cols = << >> THEN st
    ELSE
      LET col == Head(cols)
          fresh == col \notin DOMAIN st.mapping
          m1 == EnsureColumn(st.mapping, col, fresh)
          r1 == EnsureColumn(st.reverse_mapping, col, fresh)
      IN
        IF col \notin DOMAIN st.df
        THEN [st EXCEPT !.mapping = m1, !.reverse_mapping = r1, !.ok = FALSE]
        ELSE
          LET vals == UniqueValues(st.df[col])
              news == SelectSeq(vals, LAMBDA v : ~DictHas(m1[col], PyStr(v)))
          IN
            IF col \notin DOMAIN r1 /\ news # << >>
            THEN [st EXCEPT
                    !.mapping = MappingSet(m1, col,
                        DictSet(m1[col], PyStr(news[1]),
                                GenerateMaskedValue(PyStr(news[1]), prefix))),
                    !.reverse_mapping = r1,
                    !.ok = FALSE]
            ELSE
              LET ins == InsertValues(m1[col],
                                      IF col \in DOMAIN r1 THEN r1[col] ELSE EmptyDict,
                                      vals, prefix)
                  m2 == MappingSet(m1, col, ins.m)
                  r2 == IF col \in DOMAIN r1 THEN MappingSet(r1, col, ins.r) ELSE r1
              IN  MaskColumns([mapping |-> m2, reverse_mapping |-> r2,
                               df |-> [st.df EXCEPT ![col] = ApplyLookup(ins.m, @)],
                               ok |-> TRUE],
                              Tail(cols), prefix)

\* DataMasker.mask_dataframe; "saved" is the document after the call and
\* "caller" is the caller's own dataset after the call
MaskDataframe(m, r, f, df, cols, prefix) ==
    LET df_masked == DfCopy(df)
        fin == MaskColumns([mapping |-> m, reverse_mapping |-> r,
                            df |-> df_masked.data, ok |-> TRUE], cols, prefix)
    IN  [mapping |-> fin.mapping,
         reverse_mapping |-> fin.reverse_mapping,
         ok |-> fin.ok,
         out |-> fin.df,
         caller |-> IF df_masked.shared THEN fin.df ELSE df,
         saved |-> IF fin.ok THEN SaveMapping(fin.mapping) ELSE f]

\* the loop "for col in columns_to_unmask"
RECURSIVE UnmaskColumns(_, _, _)
UnmaskColumns(r, df, cols) ==
    IF cols = << >> THEN df
    ELSE LET col == Head(cols)
         IN  IF col \in DOMAIN r /\ col \in DOMAIN df
             THEN UnmaskColumns(r, [df EXCEPT ![col] = ApplyLookup(r[col], @)],
                                Tail(cols))
             ELSE UnmaskColumns(r, df, Tail(cols))

\* list(d.keys()) of an outer dict
RECURSIVE KeyList(_)
KeyList(d) ==
    IF DOMAIN d = {} THEN << >>
    ELSE LET col == CHOOSE c \in DOMAIN d : TRUE
         IN  <<col>> \o KeyList([c \in DOMAIN d \ { col } |-> d[c]])

\* unmask_dataframe giving every selected column a reverse dict, as
\* mask_dataframe does
UnmaskDataframeCreating(m, r, f, df, all, cols) ==
    LET columns_to_unmask == IF all THEN KeyList(r) ELSE cols
        selected == { columns_to_unmask[n] : n \in DOMAIN columns_to_unmask }
        r1 == [c \in DOMAIN r \cup selected |->
                  IF c \in DOMAIN r THEN r[c] ELSE EmptyDict]
    IN  [mapping |-> m,
         reverse_mapping |-> r1,
         ok |-> TRUE,
         out |-> UnmaskColumns(r1, df, columns_to_unmask),
         caller |-> df,
         saved |-> f]

\* DataMasker.unmask_dataframe; all = TRUE stands for columns_to_unmask=None
UnmaskDataframe(m, r, f, df, all, cols) ==
    LET df_unmasked == DfCopy(df)
        columns_to_unmask == IF all THEN KeyList(r) ELSE cols
        fin == UnmaskColumns(r, df_unmasked.data, columns_to_unmask)
    IN  [mapping |-> m,
         reverse_mapping |-> r,
         ok |-> TRUE,
         out |-> fin,
         caller |-> IF df_unmasked.shared THEN fin ELSE df,
         saved |-> f]

(***************************************************************************)
(* Content patterns.  A string value is the sequence of its characters; a  *)
(* pattern is the sequence of its items, each a character class with a     *)
(* repetition count, between the anchors ^ and $.                          *)
(***************************************************************************)
Digits == { "0", "1", "2", "3", "4", "5", "6", "7", "8", "9" }

Lower == { "a", "b", "c", "d", "e", "f", "g", "h", "i", "j", "k", "l", "m",
           "n", "o", "p", "q", "r", "s", "t", "u", "v", "w", "x", "y", "z" }

Upper == { "A", "B", "C", "D", "E", "F", "G", "H", "I", "J", "K", "L", "M",
           "N", "O", "P", "Q", "R", "S", "T", "U", "V", "W", "X", "Y", "Z" }

\* \s
Whitespace == { " ", "\t", "\n", "\r", "\f" }

\* cls{lo,hi}
Rep(cls, lo, hi) == [cls |-> cls, lo |-> lo, hi |-> hi, open |-> FALSE]

\* cls{lo,}
AtLeast(cls, lo) == [cls |-> cls, lo |-> lo, hi |-> lo, open |-> TRUE]

\* ^[a-zA-Z0-9._%+-]+@[a-zA-Z0-9.-]+\.[a-zA-Z]{2,}$
EMAIL_PATTERN ==
    << AtLeast(Lower \cup Upper \cup Digits \cup { ".", "_", "%", "+", "-" }, 1),
       Rep({ "@" }, 1, 1),
       AtLeast(Lower \cup Upper \cup Digits \cup { ".", "-" }, 1),
       Rep({ "." }, 1, 1),
       AtLeast(Lower \cup Upper, 2) >>

\* ^[\+]?[(]?[0-9]{1,4}[)]?[-\s\.]?[(]?[0-9]{1,4}[)]?[-\s\.]?[0-9]{1,4}[-\s\.]?[0-9]{1,9}$
PHONE_PATTERN ==
    << Rep({ "+" }, 0, 1), Rep({ "(" }, 0, 1), Rep(Digits, 1, 4),
       Rep({ ")" }, 0, 1), Rep({ "-", "." } \cup Whitespace, 0, 1),
       Rep({ "(" }, 0, 1), Rep(Digits, 1, 4), Rep({ ")" }, 0, 1),
       Rep({ "-", "." } \cup Whitespace, 0, 1), Rep(Digits, 1, 4),
       Rep({ "-", "." } \cup Whitespace, 0, 1), Rep(Digits, 1, 9) >>

\* ^\d{3}-\d{2}-\d{4}$
SSN_PATTERN ==
    << Rep(Digits, 3, 3), Rep({ "-" }, 1, 1), Rep(Digits, 2, 2),
       Rep({ "-" }, 1, 1), Rep(Digits, 4, 4) >>

\* ^\d{4}[-\s]?\d{4}[-\s]?\d{4}[-\s]?\d{4}$
CREDIT_CARD_PATTERN ==
    << Rep(Digits, 4, 4), Rep({ "-" } \cup Whitespace, 0, 1),
       Rep(Digits, 4, 4), Rep({ "-" } \cup Whitespace, 0, 1),
       Rep(Digits, 4, 4), Rep({ "-" } \cup Whitespace, 0, 1),
       Rep(Digits, 4, 4) >>

\* the items match val from its first character on, and $ matches where
\* they stop: at the end of val or before a final newline
RECURSIVE ReMatchFrom(_, _)
ReMatchFrom(items, val) ==
    IF items = << >>
    THEN val = << >> \/ val = << "\n" >>
    ELSE LET it == Head(items)
             top == IF it.open \/ it.hi > Len(val) THEN Len(val) ELSE it.hi
         IN  \E n \in it.lo .. top :
                 /\ \A k \in 1 .. n : val[k] \in it.cls
                 /\ ReMatchFrom(Tail(items), SubSeq(val, n + 1, Len(val)))

\* re.match(pattern, val) is not None
ReMatch(pattern, val) == ReMatchFrom(pattern, val)

\* val.replace(' ', '')
RemoveSpaces(val) == SelectSeq(val, LAMBDA c : c # " ")

\* series.head(n)
SeriesHead(series, n) ==
    SubSeq(series, 1, IF Len(series) < n THEN Len(series) ELSE n)

\* series.astype(str)
AsTypeStr(series) == [k \in DOMAIN series |-> PyStr(series[k])]

\* sample_size: int = 100
SampleSize == 100

\* sum(1 for val in sample if re.match(pattern, val))
Matches(pattern, sample) ==
    Cardinality({ k \in DOMAIN sample : ReMatch(pattern, sample[k]) })

\* matches / len(sample) > 0.7
OverThreshold(matches, sample) == matches * 10 > 7 * Len(sample)

\* _check_data_patterns(series): the families are tried one after the other
\* and the first one over the threshold is returned
CheckDataPatterns(series) ==
    LET sample == SeriesHead(AsTypeStr(DropNa(series)), SampleSize)
        email_matches == Matches(EMAIL_PATTERN, sample)
        phone_matches == Matches(PHONE_PATTERN, sample)
        ssn_matches == Matches(SSN_PATTERN, sample)
        cc_matches == Matches(CREDIT_CARD_PATTERN,
                              [k \in DOMAIN sample |-> RemoveSpaces(sample[k])])
    IN  IF Len(sample) = 0
        THEN [is_sensitive |-> FALSE, pattern |-> ""]
        ELSE IF OverThreshold(email_matches, sample)
        THEN [is_sensitive |-> TRUE, pattern |-> "email_pattern"]
        ELSE IF OverThreshold(phone_matches, sample)
        THEN [is_sensitive |-> TRUE, pattern |-> "phone_pattern"]
        ELSE IF OverThreshold(ssn_matches, sample)
        THEN [is_sensitive |-> TRUE, pattern |-> "ssn_pattern"]
        ELSE IF OverThreshold(cc_matches, sample)
        THEN [is_sensitive |-> TRUE, pattern |-> "credit_card_pattern"]
        ELSE [is_sensitive |-> FALSE, pattern |-> ""]

\* the data pattern part of auto_detect_sensitive_columns for one column:
\* the reasons it appends for the column
PatternReasons(dtype, series) ==
    IF dtype = "object"
    THEN LET res == CheckDataPatterns(series)
         IN  IF res.is_sensitive
             THEN << "data pattern (" \o res.pattern \o ")" >>
             ELSE << >>
    ELSE << >>

\* the texts of the columns handed to the detector: an e-mail address, a
\* social security number, a card number with a misplaced space, free text
EmailText == << "a", "@", "b", ".", "c", "o" >>
SsnText == << "1", "2", "3", "-", "4", "5", "-", "6", "7", "8", "9" >>
CardText == << "4", "1", "1", "1", "1", "1", "1", "1", "1", "1", "1", "1",
               "1", "1", "1", " ", "1" >>
FreeText == << "n", "/", "a" >>

TextCells == { Null, StrCell(EmailText), StrCell(SsnText), StrCell(CardText),
               StrCell(FreeText) }

\* the longest column handed to the detector
MaxSeries == 4

\* the columns of an uploaded dataset: object columns of texts and missing
\* cells, and the integer column age
DetectColumns ==
    { [dtype |-> "object", series |-> s] :
        s \in UNION { [1..n -> TextCells] : n \in 0..MaxSeries } }
    \cup { [dtype |-> "int64", series |-> << IntCell(30), IntCell(41) >>] }

(***************************************************************************)
(* State.                                                                  *)
(***************************************************************************)
\* file             the document at mapping_file, or NoFile
\* live             the DataMasker instances that have been constructed
\* mapping          mapping[i] : self.mapping of instance i
\* reverse_mapping  reverse_mapping[i] : self.reverse_mapping of instance i
\* call             the call whose result the caller holds, with the store
\*                  as it was when the call began, or IdleCall
\* column           the column the detector has been handed
\* detected         the reasons the detector has given for column, if it ran
VARIABLES file, live, mapping, reverse_mapping, call, column, detected

vars == <<file, live, mapping, reverse_mapping, call, column, detected>>

\* one DataMasker per Streamlit session (st.session_state.masker)
Instances == { "s1", "s2" }

BlankData == [c \in DfColumns |-> [r \in Rows |-> Null]]

\* no call in progress: the previous result has been rendered and dropped
IdleCall ==
    [op |-> "idle", who |-> "s1", arg |-> BlankData, orig |-> BlankData,
     all |-> FALSE, cols |-> << >>, prefix |-> "MASKED", ok |-> TRUE,
     out |-> BlankData, caller |-> BlankData, roundtrip |-> FALSE,
     pre |-> [mapping |-> EmptyMapping, reverse_mapping |-> EmptyMapping,
              file |-> NoFile]]

\* the store of instance i as a call finds it
Store(i) == [mapping |-> mapping[i], reverse_mapping |-> reverse_mapping[i],
             file |-> file]

\* mapping documents a user can upload in the unmask tab
UploadedDocs ==
    { JsonDump(EmptyMapping),
      JsonDump([emp_id |-> << <<"82945", "TOK_7B763DCB">> >>]),
      JsonDump([emp_id |-> << <<"82945", "TOK_7B763DCB">> >>,
                age |-> PyStrValue("n/a")]) }

\* no dataset has been uploaded to the detector; it has not run
NoColumn == [dtype |-> "object", series |-> << >>]
NotDetected == [run |-> FALSE, reasons |-> << >>]

\* the first session of a fresh installation: no mapping file yet
Init ==
    /\ file = NoFile
    /\ live = { "s1" }
    /\ mapping = [i \in Instances |-> LoadMapping(NoFile).mapping]
    /\ reverse_mapping = [i \in Instances |-> LoadMapping(NoFile).reverse_mapping]
    /\ call = IdleCall
    /\ column = NoColumn
    /\ detected = NotDetected

(***************************************************************************)
(* Operations.                                                             *)
(***************************************************************************)
\* instance i runs mask_dataframe(df, cols, prefix)
Mask(i, df, cols, prefix) ==
    /\ i \in live
    /\ call.op = "idle"
    /\ LET res == MaskDataframe(mapping[i], reverse_mapping[i], file, df, cols, prefix)
       IN  /\ mapping' = [mapping EXCEPT ![i] = res.mapping]
           /\ reverse_mapping' = [reverse_mapping EXCEPT ![i] = res.reverse_mapping]
           /\ file' = res.saved
           /\ call' = [op |-> "mask", who |-> i, arg |-> df, orig |-> df,
                       all |-> FALSE, cols |-> cols, prefix |-> prefix,
                       ok |-> res.ok,
                       out |-> IF res.ok THEN res.out ELSE res.caller,
                       caller |-> res.caller, roundtrip |-> FALSE,
                       pre |-> Store(i)]
    /\ UNCHANGED <<live, column, detected>>

\* instance i runs unmask_dataframe(df, cols), or unmask_dataframe(df) if all
Unmask(i, df, all, cols) ==
    /\ i \in live
    /\ call.op = "idle"
    /\ LET res == UnmaskDataframe(mapping[i], reverse_mapping[i], file, df, all, cols)
       IN  /\ mapping' = [mapping EXCEPT ![i] = res.mapping]
           /\ reverse_mapping' = [reverse_mapping EXCEPT ![i] = res.reverse_mapping]
           /\ file' = res.saved
           /\ call' = [op |-> "unmask", who |-> i, arg |-> df, orig |-> df,
                       all |-> all, cols |-> cols, prefix |-> "MASKED",
                       ok |-> res.ok, out |-> res.out,
                       caller |-> res.caller, roundtrip |-> FALSE,
                       pre |-> Store(i)]
    /\ UNCHANGED <<live, column, detected>>

\* instance i runs unmask_dataframe on the dataset its mask_dataframe call
\* has just returned
UnmaskMasked(i, all, cols) ==
    /\ i \in live
    /\ call.op = "mask" /\ call.ok /\ call.who = i
    /\ LET res == UnmaskDataframe(mapping[i], reverse_mapping[i], file,
                                  call.out, all, cols)
       IN  /\ mapping' = [mapping EXCEPT ![i] = res.mapping]
           /\ reverse_mapping' = [reverse_mapping EXCEPT ![i] = res.reverse_mapping]
           /\ file' = res.saved
           /\ call' = [op |-> "unmask", who |-> i, arg |-> call.out,
                       orig |-> call.arg,
                       all |-> all, cols |-> cols, prefix |-> call.prefix,
                       ok |-> res.ok, out |-> res.out,
                       caller |-> res.caller,
                       roundtrip |-> (~all /\ cols = call.cols),
                       pre |-> Store(i)]
    /\ UNCHANGED <<live, column, detected>>

\* the unmask tab of main() loads an uploaded mapping document into the
\* session's masker: mapping is assigned first, and reverse_mapping only if
\* the comprehension does not raise (the exception is shown and dropped)
ImportMapping(i, doc) ==
    /\ i \in live
    /\ call.op = "idle"
    /\ mapping' = [mapping EXCEPT ![i] = JsonLoad(doc)]
    /\ reverse_mapping' =
           IF HasItems(JsonLoad(doc))
           THEN [reverse_mapping EXCEPT ![i] = BuildReverse(JsonLoad(doc))]
           ELSE reverse_mapping
    /\ call' = [IdleCall EXCEPT !.op = "import", !.who = i,
                                !.ok = HasItems(JsonLoad(doc)), !.pre = Store(i)]
    /\ UNCHANGED <<file, live, column, detected>>

\* a new session starts: main() constructs its DataMasker, which loads the
\* mapping file as it is now; if the load raises, the session has no masker
Construct(i) ==
    /\ i \notin live
    /\ call.op = "idle"
    /\ IF file = NoFile THEN TRUE ELSE HasItems(JsonLoad(file))
    /\ live' = live \cup { i }
    /\ mapping' = [mapping EXCEPT ![i] = LoadMapping(file).mapping]
    /\ reverse_mapping' =
           [reverse_mapping EXCEPT ![i] = LoadMapping(file).reverse_mapping]
    /\ UNCHANGED <<file, call, column, detected>>

\* the script run ends: the result has been shown and is dropped
Done ==
    /\ call.op # "idle"
    /\ call' = IdleCall
    /\ UNCHANGED <<file, live, mapping, reverse_mapping, column, detected>>

MaskStep == \E df \in Datasets, cols \in ColumnLists, prefix \in Prefixes :
                Mask("s1", df, cols, prefix)

UnmaskStep == \E df \in Datasets, all \in BOOLEAN, cols \in ColumnLists :
                  (all => cols = << >>) /\ Unmask("s1", df, all, cols)

UnmaskMaskedStep == \E all \in BOOLEAN, cols \in ColumnLists :
                        (all => cols = << >>) /\ UnmaskMasked("s1", all, cols)

ImportStep == \E doc \in UploadedDocs : ImportMapping("s1", doc)

\* one session masking and unmasking datasets
Next == MaskStep \/ UnmaskStep \/ UnmaskMaskedStep \/ Done

Spec == Init /\ [][Next]_vars

\* one session using both tabs of main()
NextWorkflow == MaskStep \/ UnmaskStep \/ UnmaskMaskedStep \/ ImportStep \/ Done

SpecWorkflow == Init /\ [][NextWorkflow]_vars

\* sessions that share the mapping file: each one constructs its own
\* DataMasker and masks with the default prefix
ConstructStep == \E i \in Instances : Construct(i)

SharedMaskStep == \E i \in Instances, df \in Datasets, cols \in ColumnLists :
                      Mask(i, df, cols, "MASKED")

NextShared == ConstructStep \/ SharedMaskStep \/ Done

SpecShared == Init /\ [][NextShared]_vars

\* a dataset is uploaded: the detector is handed one of its columns
UploadStep ==
    /\ \E col \in DetectColumns : column' = col
    /\ detected' = NotDetected
    /\ UNCHANGED <<file, live, mapping, reverse_mapping, call>>

\* auto_detect_sensitive_columns gives its data pattern reasons for column
DetectStep ==
    /\ ~detected.run
    /\ detected' = [run |-> TRUE,
                    reasons |-> PatternReasons(column.dtype, column.series)]
    /\ UNCHANGED <<file, live, mapping, reverse_mapping, call, column>>

\* the detector on every column of the uploaded datasets
InitDetect ==
    /\ file = NoFile
    /\ live = { "s1" }
    /\ mapping = [i \in Instances |-> LoadMapping(NoFile).mapping]
    /\ reverse_mapping = [i \in Instances |-> LoadMapping(NoFile).reverse_mapping]
    /\ call = IdleCall
    /\ column \in DetectColumns
    /\ detected = NotDetected

NextDetect == UploadStep \/ DetectStep

SpecDetect == InitDetect /\ [][NextDetect]_vars

(***************************************************************************)
(* Vocabulary of the properties.                                           *)
(***************************************************************************)
ColSet(cols) == { cols[n] : n \in DOMAIN cols }

\* the column dict of c in an outer dict, empty if c has none
ColumnOf(m, c) == IF c \in DOMAIN m THEN m[c] ELSE EmptyDict

\* the stringified non-null cells of a series
NonNullStrs(series) ==
    { PyStr(series[r]) : r \in { q \in DOMAIN series : NotNa(series[q]) } }

\* the store of the instance that made the current call
NowMapping == mapping[call.who]
NowReverse == reverse_mapping[call.who]

MaskReturned == call.op = "mask" /\ call.ok
MaskFailed == call.op = "mask" /\ ~call.ok

\* no two distinct originals of the column dict d have the same token
Injective(d) ==
    \A j, k \in DOMAIN d : d[j][1] # d[k][1] => d[j][2] # d[k][2]

(***************************************************************************)
(* Properties.                                                             *)
(***************************************************************************)
\* C1: when unmask_dataframe is run on the dataset mask_dataframe(D, C, P)
\* has just returned, with the same C and the resulting store, every
\* non-null cell of every column of C equals the corresponding cell of D.
RoundTripRestores ==
    (call.op = "unmask" /\ call.roundtrip) =>
        \A c \in ColSet(call.cols) : \A r \in Rows :
            NotNa(call.orig[c][r]) => call.out[c][r] = call.orig[c][r]

\* C2: in every state reached by mask_dataframe calls, no column mapping
\* sends two distinct original values to the same token.
ColumnMappingsInjective ==
    \A i \in live : \A c \in DOMAIN mapping[i] : Injective(mapping[i][c])

\* C3: a mask_dataframe call substitutes, for a value the store already
\* holds for the column, the stored token and adds no entry for it; a value
\* the store does not hold gets tokenize(v, P); the column's entries after
\* the call are the earlier ones plus one per new value.
GetOrCreate ==
    MaskReturned =>
        \A c \in ColSet(call.cols) :
            LET old == ColumnOf(call.pre.mapping, c)
                new == NowMapping[c]
            IN  /\ DictKeys(new) = DictKeys(old) \cup NonNullStrs(call.arg[c])
                /\ Len(new) = Cardinality(DictKeys(new))
                /\ \A r \in Rows :
                     NotNa(call.arg[c][r]) =>
                       LET v == PyStr(call.arg[c][r])
                           token == IF DictHas(old, v) THEN DictGet(old, v)
                                    ELSE GenerateMaskedValue(v, call.prefix)
                       IN  /\ DictGet(new, v) = token
                           /\ call.out[c][r] = StrCell(token)

\* C3 happens: one call reuses an entry made under the same prefix and
\* creates another
GetOrCreateBoth ==
    /\ MaskReturned
    /\ \E c \in ColSet(call.cols) : \E r, q \in Rows :
         /\ NotNa(call.arg[c][r]) /\ NotNa(call.arg[c][q])
         /\ DictHas(ColumnOf(call.pre.mapping, c), PyStr(call.arg[c][r]))
         /\ DictGet(ColumnOf(call.pre.mapping, c), PyStr(call.arg[c][r]))
              = GenerateMaskedValue(PyStr(call.arg[c][r]), call.prefix)
         /\ ~DictHas(ColumnOf(call.pre.mapping, c), PyStr(call.arg[c][q]))

\* C4: a null cell of the input of mask_dataframe or unmask_dataframe is
\* null at the same position of the output, and every store entry a call
\* creates has a non-null cell of the column as its original value.
NullPreservation ==
    /\ (call.op \in { "mask", "unmask" } /\ call.ok) =>
          \A c \in DOMAIN call.arg : \A r \in Rows :
              ~NotNa(call.arg[c][r]) => call.out[c][r] = call.arg[c][r]
    /\ (call.op \in { "mask", "unmask" }) =>
          \A c \in DOMAIN NowMapping :
              DictKeys(NowMapping[c]) \ DictKeys(ColumnOf(call.pre.mapping, c))
                 \subseteq (IF c \in DOMAIN call.arg
                            THEN NonNullStrs(call.arg[c]) ELSE {})

\* C4 happens: a column with a null and a value was masked, then unmasked
NullThroughBoth ==
    /\ call.op = "unmask" /\ call.roundtrip
    /\ \E c \in ColSet(call.cols) : \E r, q \in Rows :
         /\ ~NotNa(call.orig[c][r])
         /\ ~NotNa(call.arg[c][r])
         /\ ~NotNa(call.out[c][r])
         /\ NotNa(call.orig[c][q])
         /\ call.arg[c][q] # call.orig[c][q]
         /\ call.out[c][q] # call.arg[c][q]

\* C5: mask_dataframe returns a dataset with the columns and rows of D,
\* row r of a masked column holding the token of row r of D, every other
\* column equal to D's, and D itself is as the caller passed it.
MaskFrame ==
    MaskReturned =>
        /\ DOMAIN call.out = DOMAIN call.arg
        /\ \A c \in DOMAIN call.arg : DOMAIN call.out[c] = DOMAIN call.arg[c]
        /\ \A c \in DOMAIN call.arg \ ColSet(call.cols) : call.out[c] = call.arg[c]
        /\ \A c \in ColSet(call.cols) : \A r \in Rows :
             NotNa(call.arg[c][r]) =>
                call.out[c][r] = StrCell(DictGet(NowMapping[c], PyStr(call.arg[c][r])))
        /\ call.caller = call.arg

\* C5 happens: a call masked one column and left another, non-empty one
MaskFrameSome ==
    /\ MaskReturned
    /\ call.out # call.arg
    /\ \E c \in DOMAIN call.arg \ ColSet(call.cols) : NonNullStrs(call.arg[c]) # {}
    /\ \E c \in ColSet(call.cols) : \E r, q \in Rows :
         /\ NotNa(call.arg[c][r]) /\ NotNa(call.arg[c][q])
         /\ call.arg[c][r] # call.arg[c][q]

\* C6: unmask_dataframe leaves the forward mapping, the reverse index and
\* the persisted document as they were before the call.
UnmaskPure ==
    call.op = "unmask" =>
        /\ NowMapping = call.pre.mapping
        /\ NowReverse = call.pre.reverse_mapping
        /\ file = call.pre.file

\* C6 happens: unmask_dataframe without a column selection replaced tokens
UnmaskReplaced ==
    /\ call.op = "unmask" /\ call.all
    /\ call.out # call.arg
    /\ file # NoFile

\* C6 happens as well for a selection with a column the store does not have
UnmaskUnknownColumn ==
    /\ call.op = "unmask" /\ ~call.all
    /\ NowMapping # EmptyMapping
    /\ \E c \in ColSet(call.cols) : c \notin DOMAIN NowReverse
    /\ GhostColumn \in ColSet(call.cols)

\* C7: every (column, original, token) entry of the in-memory store before
\* a mask_dataframe call is there with the same token after it.
MaskMonotonic ==
    call.op = "mask" =>
        \A c \in DOMAIN call.pre.mapping :
            /\ c \in DOMAIN NowMapping
            /\ \A k \in DictKeys(call.pre.mapping[c]) :
                 /\ DictHas(NowMapping[c], k)
                 /\ DictGet(NowMapping[c], k) = DictGet(call.pre.mapping[c], k)

\* C7 happens: a call with another prefix met an entry and added entries
MaskGrewOverOld ==
    /\ call.op = "mask"
    /\ NowMapping # call.pre.mapping
    /\ \E c \in ColSet(call.cols) \cap DOMAIN call.pre.mapping \cap DOMAIN call.arg :
         \E k \in DictKeys(call.pre.mapping[c]) \cap NonNullStrs(call.arg[c]) :
            DictGet(call.pre.mapping[c], k) # GenerateMaskedValue(k, call.prefix)

\* C8: once the session's store has a column, no step of the session
\* (masking, unmasking, loading an uploaded mapping document) leaves it
\* without any.
NeverBackToEmpty ==
    [][mapping["s1"] # EmptyMapping => mapping'["s1"] # EmptyMapping]_vars

\* C9: a mask_dataframe call that fails on an unknown column leaves the
\* forward mapping, the reverse index and the document as they were.
FailedMaskLeavesStore ==
    MaskFailed =>
        /\ NowMapping = call.pre.mapping
        /\ NowReverse = call.pre.reverse_mapping
        /\ file = call.pre.file

\* C10: after a successful mask_dataframe call, a DataMasker constructed
\* on the mapping file has the forward mapping and the reverse index of
\* the instance that masked.
SaveLoadRoundTrip ==
    MaskReturned =>
        /\ file # NoFile
        /\ NestedDictEq(LoadMapping(file).mapping, NowMapping)
        /\ NestedDictEq(LoadMapping(file).reverse_mapping, NowReverse)

\* C10 happens: the saved column has two originals with one token, in an
\* order the reverse index depends on
SavedTwoWithOneToken ==
    /\ MaskReturned
    /\ \E c \in DOMAIN NowMapping : ~Injective(NowMapping[c])

\* the sample _check_data_patterns takes of the column
SampleOf(col) == SeriesHead(AsTypeStr(DropNa(col.series)), SampleSize)

\* the pattern of a family, and the text it is matched against
FamilyNames == { "email_pattern", "phone_pattern", "ssn_pattern",
                 "credit_card_pattern" }

FamilyMatches(family, sample) ==
    CASE family = "email_pattern" -> Matches(EMAIL_PATTERN, sample)
      [] family = "phone_pattern" -> Matches(PHONE_PATTERN, sample)
      [] family = "ssn_pattern" -> Matches(SSN_PATTERN, sample)
      [] family = "credit_card_pattern" ->
             Matches(CREDIT_CARD_PATTERN,
                     [k \in DOMAIN sample |-> RemoveSpaces(sample[k])])

\* more than 0.7 of the sampled non-null values of col match family
FamilyOver(family, col) ==
    /\ Len(SampleOf(col)) > 0
    /\ OverThreshold(FamilyMatches(family, SampleOf(col)), SampleOf(col))

ReasonOf(family) == "data pattern (" \o family \o ")"

\* C11: once the detector has run on a string-typed column, the column
\* carries the reason of every pattern family that more than 0.7 of its
\* sampled non-null values match, not only of the first such family.
PatternIndependence ==
    (detected.run /\ column.dtype = "object") =>
        \A family \in FamilyNames :
            FamilyOver(family, column) =>
                \E k \in DOMAIN detected.reasons :
                    detected.reasons[k] = ReasonOf(family)

\* C12: in every state, for every instance, reverse_mapping has the same
\* column keys as mapping, every token that is a value of mapping[c] is a key
\* of reverse_mapping[c], and reverse_mapping[c][t] = o implies
\* mapping[c][o] = t.
ReverseIndexConsistent ==
    \A i \in live :
        /\ DOMAIN reverse_mapping[i] = DOMAIN mapping[i]
        /\ \A c \in DOMAIN mapping[i] :
              IsDict(mapping[i][c]) =>
                LET mc == mapping[i][c]
                    rc == reverse_mapping[i][c]
                IN  /\ \A j \in DOMAIN mc : DictHas(rc, mc[j][2])
                    /\ \A j \in DOMAIN rc :
                          /\ DictHas(mc, rc[j][2])
                          /\ DictGet(mc, rc[j][2]) = rc[j][1]

\* the entries (column, original, token) of the persisted document
Entries(f) ==
    IF f = NoFile THEN { }
    ELSE LET m == JsonLoad(f)
         IN  UNION { IF IsDict(m[c])
                     THEN { <<c, m[c][j][1], m[c][j][2]>> : j \in DOMAIN m[c] }
                     ELSE { } : c \in DOMAIN m }

\* C13: when several instances use the same mapping file, no step of any
\* interleaving of their constructions and mask calls removes an entry from
\* the persisted document: every entry a mask call has written is still in
\* the document after all calls.
PersistedEntriesKept == [][Entries(file) \subseteq Entries(file')]_vars

====
